---- MODULE Spec2Model ----
(***************************************************************************)
(* Gear-shift haptic feedback simulator (src/src/main.rs).                 *)
(*                                                                         *)
(* The model has two specifications over the same state:                   *)
(*   Spec     the session of main(): start-up, the gamepad check and the   *)
(*            event loop, with the gilrs event queue filled by the         *)
(*            environment;                                                 *)
(*   SpecCar  a Car built by Car::new on which upshift and downshift are   *)
(*            called directly, for a wide range of torque values.          *)
(*                                                                         *)
(* f32 values are modelled as exact rationals extended with NaN and the    *)
(* two infinities; the rounding of f32 operations to 24 bits is not        *)
(* modelled.                                                               *)
(***************************************************************************)
EXTENDS Integers, Sequences, FiniteSets, TLC

VARIABLES
    torque,          \* Car.torque (f32)
    max_torque,      \* Car.max_torque (f32)
    current_gear,    \* Car.current_gear (u8)
    pc,              \* position of main()
    active_gamepad,  \* main's Option<GamepadId>: {} is None, {id} is Some(id)
    queue,           \* events held by gilrs, not yet returned by next_event()
    polled,          \* number of events next_event() has returned
    event,           \* `event` of the loop: the EventType returned last, {} before
    stdout,          \* lines printed by the most recent start-up or handler step
    intensity,       \* local `intensity` of the most recent step: {} if not computed
    calls            \* gamepad calls made by the most recent step, in order

vars == <<torque, max_torque, current_gear, pc, active_gamepad, queue, polled,
          event, stdout, intensity, calls>>

----------------------------------------------------------------------------
(* Bounds of the model *)

NumPads == 2
MaxQueue == 2
MaxEvents == 4
MaxTorqueInput == 1300

Pads == 0 .. (NumPads - 1)

----------------------------------------------------------------------------
(* f32 arithmetic *)

Abs(x) == IF x < 0 THEN -x ELSE x

RECURSIVE GCD(_, _)
GCD(a, b) == IF b = 0 THEN a ELSE GCD(b, a % b)

\* a finite value n/d in lowest terms, d > 0
Fin(n, d) == LET g == GCD(Abs(n), d) IN [k |-> "fin", n |-> n \div g, d |-> d \div g]
NaN == [k |-> "nan", n |-> 0, d |-> 1]
Inf(s) == [k |-> "inf", n |-> s, d |-> 1]

Sign(a) == IF a.n > 0 THEN 1 ELSE IF a.n < 0 THEN -1 ELSE 0

\* a * b
FMul(a, b) ==
    IF a.k = "nan" \/ b.k = "nan" THEN NaN
    ELSE IF a.k = "inf" \/ b.k = "inf"
         THEN IF Sign(a) * Sign(b) = 0 THEN NaN ELSE Inf(Sign(a) * Sign(b))
    ELSE LET g1 == GCD(Abs(a.n), b.d)
             g2 == GCD(Abs(b.n), a.d)
         IN  Fin((a.n \div g1) * (b.n \div g2), (a.d \div g2) * (b.d \div g1))

\* a / b
FDiv(a, b) ==
    IF a.k = "nan" \/ b.k = "nan" THEN NaN
    ELSE IF b.k = "inf" THEN (IF a.k = "inf" THEN NaN ELSE Fin(0, 1))
    ELSE IF a.k = "inf" THEN Inf(IF Sign(b) < 0 THEN -Sign(a) ELSE Sign(a))
    ELSE IF b.n = 0 THEN (IF a.n = 0 THEN NaN ELSE Inf(Sign(a)))
    ELSE FMul(a, Fin(Sign(b) * b.d, Abs(b.n)))

\* a < b (false when either is NaN)
FLt(a, b) ==
    /\ a.k # "nan"
    /\ b.k # "nan"
    /\ IF a.k = "inf" THEN a.n < 0 /\ ~(b.k = "inf" /\ b.n < 0)
       ELSE IF b.k = "inf" THEN b.n > 0
       ELSE a.n * b.d < b.n * a.d

\* f32::min and f32::max: when one argument is NaN the other is returned
FMin(a, b) == IF a.k = "nan" THEN b ELSE IF b.k = "nan" THEN a
              ELSE IF FLt(b, a) THEN b ELSE a
FMax(a, b) == IF a.k = "nan" THEN b ELSE IF b.k = "nan" THEN a
              ELSE IF FLt(a, b) THEN b ELSE a

\* `x as u16`: truncation toward zero, saturating, NaN to 0
AsU16(a) ==
    IF a.k = "nan" THEN 0
    ELSE IF a.k = "inf" THEN (IF a.n > 0 THEN 65535 ELSE 0)
    ELSE IF a.n < 0 THEN 0
    ELSE IF a.n \div a.d > 65535 THEN 65535 ELSE a.n \div a.d

----------------------------------------------------------------------------
(* Program constants *)

InitialGear == 3
MinGear == 1
MaxGear == 6
U16Max == 65535
DownshiftDuration == 200
UpshiftDuration == 150

MaxTorqueDefault == Fin(1000, 1)
DownshiftFactor == Fin(13, 10)
UpshiftFactor == Fin(8, 10)
WeakFactor == Fin(7, 10)
Zero == Fin(0, 1)
One == Fin(1, 1)

----------------------------------------------------------------------------
(* Car *)

\* calculate_rumble_intensity without `.min(1.0)`
calculate_rumble_intensity_no_upper_clamp(is_downshift) ==
    LET base == FDiv(torque, max_torque)
        scaled == IF is_downshift THEN FMul(base, DownshiftFactor)
                  ELSE FMul(base, UpshiftFactor)
    IN  FMax(scaled, Zero)

\* Car::calculate_rumble_intensity
calculate_rumble_intensity(is_downshift) ==
    LET base == FDiv(torque, max_torque)
        scaled == IF is_downshift THEN FMul(base, DownshiftFactor)
                  ELSE FMul(base, UpshiftFactor)
    IN  FMax(FMin(scaled, One), Zero)

\* the weak magnitude scaled by 0.7 twice
weak_magnitude_scaled_twice(i) ==
    AsU16(FMul(FMul(FMul(i, WeakFactor), WeakFactor), Fin(U16Max, 1)))

\* `duration` with the two values exchanged
duration_exchanged(is_downshift) ==
    IF is_downshift THEN UpshiftDuration ELSE DownshiftDuration

\* the strong magnitude rounded to the nearest integer instead of cast
strong_magnitude_rounded(i) ==
    LET a == FMul(i, Fin(U16Max, 1))
    IN  IF a.k = "fin" /\ a.n >= 0 /\ 2 * (a.n % a.d) >= a.d /\ a.n \div a.d < U16Max
        THEN (a.n \div a.d) + 1
        ELSE AsU16(a)

\* the two magnitudes trigger_rumble passes to set_rumble
strong_magnitude(i) == AsU16(FMul(i, Fin(U16Max, 1)))
weak_magnitude(i) == AsU16(FMul(FMul(i, WeakFactor), Fin(U16Max, 1)))

\* `duration` of trigger_rumble
duration(is_downshift) == IF is_downshift THEN DownshiftDuration ELSE UpshiftDuration

\* trigger_rumble calling set_rumble without asking is_ff_supported()
trigger_rumble_unchecked(gamepad_id, i, is_downshift, lines) ==
    \E ok \in BOOLEAN :
        /\ calls' = << <<"set_rumble", gamepad_id, strong_magnitude(i),
                         weak_magnitude(i), duration(is_downshift), ok>> >>
        /\ stdout' = lines \o << <<"Rumble triggered!">> >>

\* trigger_rumble calling set_rumble a second time when the first call fails
trigger_rumble_retries(gamepad_id, i, is_downshift, lines) ==
    \E supported \in BOOLEAN :
        IF supported
        THEN \E ok \in BOOLEAN :
                /\ calls' = IF ok
                            THEN << <<"is_ff_supported", gamepad_id, TRUE>>,
                                    <<"set_rumble", gamepad_id, strong_magnitude(i),
                                      weak_magnitude(i), duration(is_downshift), TRUE>> >>
                            ELSE << <<"is_ff_supported", gamepad_id, TRUE>>,
                                    <<"set_rumble", gamepad_id, strong_magnitude(i),
                                      weak_magnitude(i), duration(is_downshift), FALSE>>,
                                    <<"set_rumble", gamepad_id, strong_magnitude(i),
                                      weak_magnitude(i), duration(is_downshift), TRUE>> >>
                /\ stdout' = lines \o << <<"Rumble triggered!">> >>
        ELSE /\ calls' = << <<"is_ff_supported", gamepad_id, FALSE>> >>
             /\ stdout' = lines \o << <<"Rumble not supported on this gamepad">> >>

\* Car::trigger_rumble: the calls made on the gamepad and the line printed.
\* is_ff_supported() and the Result of set_rumble() are answers of the device
\* subsystem, so both are chosen by the environment.  The Result is dropped
\* by `let _ =`.
trigger_rumble(gamepad_id, i, is_downshift, lines) ==
    \E supported \in BOOLEAN :
        IF supported
        THEN \E ok \in BOOLEAN :
                /\ calls' = << <<"is_ff_supported", gamepad_id, TRUE>>,
                               <<"set_rumble", gamepad_id, strong_magnitude(i),
                                 weak_magnitude(i), duration(is_downshift), ok>> >>
                /\ stdout' = lines \o << <<"Rumble triggered!">> >>
        ELSE /\ calls' = << <<"is_ff_supported", gamepad_id, FALSE>> >>
             /\ stdout' = lines \o << <<"Rumble not supported on this gamepad">> >>

\* upshift with an off-by-one ceiling guard (<= instead of <)
upshift_ceiling_off_by_one(gamepad_id) ==
    IF current_gear <= MaxGear
    THEN /\ current_gear' = current_gear + 1
         /\ intensity' = {calculate_rumble_intensity(FALSE)}
         /\ trigger_rumble(gamepad_id, calculate_rumble_intensity(FALSE), FALSE,
                           << <<"UPSHIFT", current_gear + 1>> >>)
    ELSE /\ current_gear' = current_gear
         /\ intensity' = {}
         /\ calls' = <<>>
         /\ stdout' = << <<"Already in highest gear!">> >>

\* upshift computing the intensity on the boundary branch too
upshift_computes_at_ceiling(gamepad_id) ==
    IF current_gear < MaxGear
    THEN /\ current_gear' = current_gear + 1
         /\ intensity' = {calculate_rumble_intensity(FALSE)}
         /\ trigger_rumble(gamepad_id, calculate_rumble_intensity(FALSE), FALSE,
                           << <<"UPSHIFT", current_gear + 1>> >>)
    ELSE /\ current_gear' = current_gear
         /\ intensity' = {calculate_rumble_intensity(FALSE)}
         /\ calls' = <<>>
         /\ stdout' = << <<"Already in highest gear!">> >>

\* Car::upshift.  The "Rumble Intensity" line shows `intensity`, kept in the
\* variable of that name.
upshift(gamepad_id) ==
    IF current_gear < MaxGear
    THEN /\ current_gear' = current_gear + 1
         /\ intensity' = {calculate_rumble_intensity(FALSE)}
         /\ trigger_rumble(gamepad_id, calculate_rumble_intensity(FALSE), FALSE,
                           << <<"UPSHIFT", current_gear + 1>> >>)
    ELSE /\ current_gear' = current_gear
         /\ intensity' = {}
         /\ calls' = <<>>
         /\ stdout' = << <<"Already in highest gear!">> >>

\* downshift with the floor guard testing 0 instead of 1
downshift_floor_zero(gamepad_id) ==
    IF current_gear > 0
    THEN /\ current_gear' = current_gear - 1
         /\ intensity' = {calculate_rumble_intensity(TRUE)}
         /\ trigger_rumble(gamepad_id, calculate_rumble_intensity(TRUE), TRUE,
                           << <<"DOWNSHIFT", current_gear - 1>> >>)
    ELSE /\ current_gear' = current_gear
         /\ intensity' = {}
         /\ calls' = <<>>
         /\ stdout' = << <<"Already in first gear!">> >>

\* downshift passing is_downshift = false, as upshift does
downshift_flag_false(gamepad_id) ==
    IF current_gear > MinGear
    THEN /\ current_gear' = current_gear - 1
         /\ intensity' = {calculate_rumble_intensity(FALSE)}
         /\ trigger_rumble(gamepad_id, calculate_rumble_intensity(FALSE), FALSE,
                           << <<"DOWNSHIFT", current_gear - 1>> >>)
    ELSE /\ current_gear' = current_gear
         /\ intensity' = {}
         /\ calls' = <<>>
         /\ stdout' = << <<"Already in first gear!">> >>

\* downshift calling trigger_rumble on the boundary branch too
downshift_rumbles_at_floor(gamepad_id) ==
    IF current_gear > MinGear
    THEN /\ current_gear' = current_gear - 1
         /\ intensity' = {calculate_rumble_intensity(TRUE)}
         /\ trigger_rumble(gamepad_id, calculate_rumble_intensity(TRUE), TRUE,
                           << <<"DOWNSHIFT", current_gear - 1>> >>)
    ELSE /\ current_gear' = current_gear
         /\ intensity' = {calculate_rumble_intensity(TRUE)}
         /\ trigger_rumble(gamepad_id, calculate_rumble_intensity(TRUE), TRUE,
                           << <<"Already in first gear!">> >>)

\* Car::downshift
downshift(gamepad_id) ==
    IF current_gear > MinGear
    THEN /\ current_gear' = current_gear - 1
         /\ intensity' = {calculate_rumble_intensity(TRUE)}
         /\ trigger_rumble(gamepad_id, calculate_rumble_intensity(TRUE), TRUE,
                           << <<"DOWNSHIFT", current_gear - 1>> >>)
    ELSE /\ current_gear' = current_gear
         /\ intensity' = {}
         /\ calls' = <<>>
         /\ stdout' = << <<"Already in first gear!">> >>

----------------------------------------------------------------------------
(* The device subsystem (gilrs) as main() sees it *)

Buttons == {"West", "East", "Start", "South"}

\* EventType values: the three main() matches on, and ButtonReleased standing
\* for every other kind; South stands for every other button
EventTypes == {<<"ButtonPressed", b>> : b \in Buttons}
                \cup {<<"Connected">>, <<"Disconnected">>, <<"ButtonReleased">>}

Events == [id : Pads, event : EventTypes]

\* the first gamepad gilrs.gamepads() yields
FirstGamepad(found) == CHOOSE p \in found : \A q \in found : p <= q

\* the torque typed at the prompt (300 when the input is unparsable).  The
\* torque only feeds the magnitudes of trigger_rumble, which SpecCar covers
\* over CarTorques.
SessionTorques == {Fin(500, 1)}

\* the torque values given to Car::new in SpecCar
CarTorques == {Fin(n, 1) : n \in 0 .. MaxTorqueInput}
                \cup {Fin(-1, 1), Fin(-500, 1), Fin(7693, 10), Fin(100000, 1),
                      NaN, Inf(1), Inf(-1)}

----------------------------------------------------------------------------
(* main *)

\* Car::new and the state of main() before Gilrs::new()
Init ==
    /\ torque \in SessionTorques
    /\ max_torque = MaxTorqueDefault
    /\ current_gear = InitialGear
    /\ pc = "start"
    /\ active_gamepad = {}
    /\ queue = <<>>
    /\ polled = 0
    /\ event = {}
    /\ stdout = <<>>
    /\ intensity = {}
    /\ calls = <<>>

\* Gilrs::new() returns Err: main returns
GilrsInitFailed ==
    /\ pc = "start"
    /\ pc' = "returned_init_failed"
    /\ stdout' = << <<"Failed to initialize gamepad support">> >>
    /\ UNCHANGED <<torque, max_torque, current_gear, active_gamepad, queue, polled,
                   event, intensity, calls>>

\* Gilrs::new() returns Ok and gilrs.gamepads() yields a gamepad: the loop starts
GamepadFound ==
    /\ pc = "start"
    /\ \E found \in SUBSET Pads \ {{}} :
          active_gamepad' = {FirstGamepad(found)}
    /\ pc' = "poll"
    /\ stdout' = << <<"Gamepad found">>, <<"Ready! Start shifting...">> >>
    /\ UNCHANGED <<torque, max_torque, current_gear, queue, polled, event, intensity,
                   calls>>

\* the no-gamepad branch without its `return`: the loop starts anyway
NoGamepad_falls_through ==
    /\ pc = "start"
    /\ active_gamepad' = {}
    /\ pc' = "poll"
    /\ stdout' = << <<"No gamepad detected! Please connect a gamepad and restart.">>,
                    <<"Press Enter to exit...">> >>
    /\ UNCHANGED <<torque, max_torque, current_gear, queue, polled, event, intensity,
                   calls>>

\* Gilrs::new() returns Ok and gilrs.gamepads() yields nothing
NoGamepad ==
    /\ pc = "start"
    /\ active_gamepad' = {}
    /\ pc' = "no_gamepad"
    /\ stdout' = << <<"No gamepad detected! Please connect a gamepad and restart.">>,
                    <<"Press Enter to exit...">> >>
    /\ UNCHANGED <<torque, max_torque, current_gear, queue, polled, event, intensity,
                   calls>>

\* read_line returns: main returns
AckEnter ==
    /\ pc = "no_gamepad"
    /\ pc' = "returned_no_gamepad"
    /\ UNCHANGED <<torque, max_torque, current_gear, active_gamepad, queue, polled,
                   event, stdout, intensity, calls>>

\* the device subsystem queues an event while the Gilrs object exists
Enqueue ==
    /\ pc \in {"no_gamepad", "poll", "sleep"}
    /\ Len(queue) < MaxQueue
    /\ polled + Len(queue) < MaxEvents
    /\ \E e \in Events : queue' = Append(queue, e)
    /\ UNCHANGED <<torque, max_torque, current_gear, pc, active_gamepad, polled,
                   event, stdout, intensity, calls>>

\* gilrs.next_event() returns Some(Event) whose EventType is ev
NextEvent(ev) ==
    /\ pc = "poll"
    /\ queue # <<>>
    /\ Head(queue).event = ev
    /\ queue' = Tail(queue)
    /\ polled' = polled + 1
    /\ event' = {ev}

\* a handler that prints nothing and touches no gamepad
Silent == stdout' = <<>> /\ intensity' = {} /\ calls' = <<>>

\* Button::West
PressWest ==
    /\ NextEvent(<<"ButtonPressed", "West">>)
    /\ IF active_gamepad # {}
       THEN \E gamepad_id \in active_gamepad : downshift(gamepad_id)
       ELSE Silent /\ current_gear' = current_gear
    /\ UNCHANGED <<torque, max_torque, pc, active_gamepad>>

\* the East arm passing the id of the event to upshift instead of the active gamepad
PressEast_addresses_sender ==
    /\ NextEvent(<<"ButtonPressed", "East">>)
    /\ IF active_gamepad # {}
       THEN upshift(Head(queue).id)
       ELSE Silent /\ current_gear' = current_gear
    /\ UNCHANGED <<torque, max_torque, pc, active_gamepad>>

\* Button::East
PressEast ==
    /\ NextEvent(<<"ButtonPressed", "East">>)
    /\ IF active_gamepad # {}
       THEN \E gamepad_id \in active_gamepad : upshift(gamepad_id)
       ELSE Silent /\ current_gear' = current_gear
    /\ UNCHANGED <<torque, max_torque, pc, active_gamepad>>

\* Button::Start with `break` for `return`: only the inner loop ends
PressStart_break ==
    /\ NextEvent(<<"ButtonPressed", "Start">>)
    /\ pc' = "sleep"
    /\ stdout' = << <<"Exiting...">> >>
    /\ intensity' = {}
    /\ calls' = <<>>
    /\ UNCHANGED <<torque, max_torque, current_gear, active_gamepad>>

\* Button::Start: main returns
PressStart ==
    /\ NextEvent(<<"ButtonPressed", "Start">>)
    /\ pc' = "returned_exit"
    /\ stdout' = << <<"Exiting...">> >>
    /\ intensity' = {}
    /\ calls' = <<>>
    /\ UNCHANGED <<torque, max_torque, current_gear, active_gamepad>>

\* the arm of the other buttons leaving the inner loop (`break`)
PressOther_breaks ==
    /\ NextEvent(<<"ButtonPressed", "South">>)
    /\ Silent
    /\ pc' = "sleep"
    /\ UNCHANGED <<torque, max_torque, current_gear, active_gamepad>>

\* any other button
PressOther ==
    /\ NextEvent(<<"ButtonPressed", "South">>)
    /\ Silent
    /\ UNCHANGED <<torque, max_torque, current_gear, pc, active_gamepad>>

\* the Connected arm setting the active gamepad only when there is none
Connected_keeps_first ==
    /\ NextEvent(<<"Connected">>)
    /\ active_gamepad' = IF active_gamepad = {} THEN {Head(queue).id} ELSE active_gamepad
    /\ stdout' = << <<"Gamepad connected!">> >>
    /\ intensity' = {}
    /\ calls' = <<>>
    /\ UNCHANGED <<torque, max_torque, current_gear, pc>>

\* the Connected arm putting the car back into the initial gear
Connected_resets_gear ==
    /\ NextEvent(<<"Connected">>)
    /\ active_gamepad' = {Head(queue).id}
    /\ current_gear' = InitialGear
    /\ stdout' = << <<"Gamepad connected!">> >>
    /\ intensity' = {}
    /\ calls' = <<>>
    /\ UNCHANGED <<torque, max_torque, pc>>

\* EventType::Connected
Connected ==
    /\ NextEvent(<<"Connected">>)
    /\ active_gamepad' = {Head(queue).id}
    /\ stdout' = << <<"Gamepad connected!">> >>
    /\ intensity' = {}
    /\ calls' = <<>>
    /\ UNCHANGED <<torque, max_torque, current_gear, pc>>

\* the Disconnected arm clearing the active gamepad only when the event is its own
Disconnected_only_active ==
    /\ NextEvent(<<"Disconnected">>)
    /\ active_gamepad' = active_gamepad \ {Head(queue).id}
    /\ stdout' = << <<"Gamepad disconnected!">> >>
    /\ intensity' = {}
    /\ calls' = <<>>
    /\ UNCHANGED <<torque, max_torque, current_gear, pc>>

\* the Disconnected arm without `active_gamepad = None`
Disconnected_keeps_active ==
    /\ NextEvent(<<"Disconnected">>)
    /\ active_gamepad' = active_gamepad
    /\ stdout' = << <<"Gamepad disconnected!">> >>
    /\ intensity' = {}
    /\ calls' = <<>>
    /\ UNCHANGED <<torque, max_torque, current_gear, pc>>

\* the Disconnected arm returning from main
Disconnected_exits ==
    /\ NextEvent(<<"Disconnected">>)
    /\ active_gamepad' = {}
    /\ pc' = "returned_exit"
    /\ stdout' = << <<"Gamepad disconnected!">> >>
    /\ intensity' = {}
    /\ calls' = <<>>
    /\ UNCHANGED <<torque, max_torque, current_gear>>

\* EventType::Disconnected
Disconnected ==
    /\ NextEvent(<<"Disconnected">>)
    /\ active_gamepad' = {}
    /\ stdout' = << <<"Gamepad disconnected!">> >>
    /\ intensity' = {}
    /\ calls' = <<>>
    /\ UNCHANGED <<torque, max_torque, current_gear, pc>>

\* any other event kind
OtherEvent ==
    /\ NextEvent(<<"ButtonReleased">>)
    /\ Silent
    /\ UNCHANGED <<torque, max_torque, current_gear, pc, active_gamepad>>

\* gilrs.next_event() returns None: the inner loop ends
NoEvent ==
    /\ pc = "poll"
    /\ queue = <<>>
    /\ pc' = "sleep"
    /\ UNCHANGED <<torque, max_torque, current_gear, active_gamepad, queue, polled,
                   event, stdout, intensity, calls>>

\* thread::sleep returns: the outer loop polls again
Sleep ==
    /\ pc = "sleep"
    /\ pc' = "poll"
    /\ UNCHANGED <<torque, max_torque, current_gear, active_gamepad, queue, polled,
                   event, stdout, intensity, calls>>

Next ==
    \/ GilrsInitFailed
    \/ GamepadFound
    \/ NoGamepad
    \/ AckEnter
    \/ Enqueue
    \/ PressWest
    \/ PressEast
    \/ PressStart
    \/ PressOther
    \/ Connected
    \/ Disconnected
    \/ OtherEvent
    \/ NoEvent
    \/ Sleep

Spec == Init /\ [][Next]_vars

\* a step of the thread running main's loop: at the head of the drain loop it
\* takes one event off the queue (polled grows) or finds none and goes to
\* sleep; asleep, it wakes up.  Among the steps of Next these are exactly the
\* steps of the handlers, NoEvent and Sleep (Enqueue changes neither pc nor
\* polled), and one of them is possible in every state of the loop.
LoopStep ==
    \/ pc = "poll" /\ polled' = polled + 1 /\ pc' \in {"poll", "returned_exit"}
    \/ pc = "poll" /\ polled' = polled /\ pc' = "sleep"
    \/ pc = "sleep" /\ polled' = polled /\ pc' = "poll"

\* the session with the loop's thread scheduled fairly: next_event(), the
\* handlers and thread::sleep all return
SpecFair == Init /\ [][Next]_vars /\ WF_<<pc, polled>>(LoopStep)

----------------------------------------------------------------------------
(* A Car used directly: Car::new, then upshift and downshift calls *)

InitCar ==
    /\ torque \in CarTorques
    /\ max_torque = MaxTorqueDefault
    /\ current_gear = InitialGear
    /\ pc = "car"
    /\ active_gamepad = {}
    /\ queue = <<>>
    /\ polled = 0
    /\ event = {}
    /\ stdout = <<>>
    /\ intensity = {}
    /\ calls = <<>>

CallUpshift ==
    /\ pc = "car"
    /\ \E gamepad_id \in Pads : upshift(gamepad_id)
    /\ UNCHANGED <<torque, max_torque, pc, active_gamepad, queue, polled, event>>

CallDownshift ==
    /\ pc = "car"
    /\ \E gamepad_id \in Pads : downshift(gamepad_id)
    /\ UNCHANGED <<torque, max_torque, pc, active_gamepad, queue, polled, event>>

NextCar ==
    \/ CallUpshift
    \/ CallDownshift

SpecCar == InitCar /\ [][NextCar]_vars

----------------------------------------------------------------------------
(* Vocabulary of the properties *)

West == <<"ButtonPressed", "West">>
East == <<"ButtonPressed", "East">>
Start == <<"ButtonPressed", "Start">>

\* this step is the loop handling an event of type ev
Handles(ev) ==
    /\ pc = "poll"
    /\ queue # <<>>
    /\ Head(queue).event = ev
    /\ polled' = polled + 1

\* the set_rumble calls among a sequence of gamepad calls
RumbleCalls(cs) == {k \in 1 .. Len(cs) : cs[k][1] = "set_rumble"}

HighestNotice == << <<"Already in highest gear!">> >>
FirstNotice == << <<"Already in first gear!">> >>
DisconnectedNotice == << <<"Gamepad disconnected!">> >>
NoGamepadNotice == <<"No gamepad detected! Please connect a gamepad and restart.">>

Running == pc \in {"poll", "sleep"}

----------------------------------------------------------------------------
(* C1: in every reachable state of a session the current gear is an integer
   in 1..6, and it is 3 until the first event is handled. *)
C1_GearInRange ==
    /\ current_gear \in 1 .. 6
    /\ polled = 0 => current_gear = 3

\* the gear is at the ceiling and a further upshift press has been handled
C1_Witness ==
    /\ current_gear = 6
    /\ event = {East}
    /\ stdout = HighestNotice

(* C2: with a device active, an upshift press handled at gear g < 6 leaves
   the gear at g+1 and a downshift press handled at gear g > 1 leaves it at
   g-1; the press reports the shift with its direction and the new gear, the
   intensity is computed, and a rumble command it issues has the duration of
   that direction. *)
C2_ShiftByOne ==
    [][ /\ (Handles(East) /\ active_gamepad # {} /\ current_gear < 6)
           => /\ current_gear' = current_gear + 1
              /\ stdout'[1] = <<"UPSHIFT", current_gear + 1>>
              /\ intensity' # {}
              /\ \A k \in RumbleCalls(calls') : calls'[k][5] = 150
        /\ (Handles(West) /\ active_gamepad # {} /\ current_gear > 1)
           => /\ current_gear' = current_gear - 1
              /\ stdout'[1] = <<"DOWNSHIFT", current_gear - 1>>
              /\ intensity' # {}
              /\ \A k \in RumbleCalls(calls') : calls'[k][5] = 200
      ]_vars

\* a downshift press took the gear from 3 to 2 and a rumble command went out
C2_Witness ==
    /\ event = {West}
    /\ polled = 1
    /\ current_gear = 2
    /\ stdout[1] = <<"DOWNSHIFT", 2>>
    /\ RumbleCalls(calls) # {}

(* C3: an upshift press handled at gear 6 leaves the gear at 6 and a
   downshift press handled at gear 1 leaves it at 1, from every state in
   which that happens (so however often it is repeated); with a device
   active the press prints the boundary notice, no gamepad call is made, and
   the loop keeps running. *)
C3_BoundaryNoChange ==
    [][ /\ (Handles(East) /\ current_gear = 6)
           => /\ current_gear' = 6
              /\ calls' = <<>>
              /\ pc' = "poll"
              /\ active_gamepad # {} => stdout' = HighestNotice
        /\ (Handles(West) /\ current_gear = 1)
           => /\ current_gear' = 1
              /\ calls' = <<>>
              /\ pc' = "poll"
              /\ active_gamepad # {} => stdout' = FirstNotice
      ]_vars

\* two downshifts reached gear 1 and two further downshift presses were
\* answered by the notice
C3_Witness ==
    /\ current_gear = 1
    /\ polled = 4
    /\ event = {West}
    /\ stdout = FirstNotice
    /\ pc = "poll"

(* C4: handling a Disconnected event leaves no active device, and while no
   device is active every upshift or downshift press handled changes no
   gear and makes no gamepad call; the Connected event that ends this
   period changes no gear and makes no gamepad call either (nothing is
   replayed). *)
C4_NoInputWhileDisconnected ==
    /\ [](event = {<<"Disconnected">>} => active_gamepad = {})
    /\ [][ /\ ((Handles(East) \/ Handles(West)) /\ active_gamepad = {})
              => /\ current_gear' = current_gear
                 /\ calls' = <<>>
                 /\ stdout' = <<>>
                 /\ active_gamepad' = {}
           /\ Handles(<<"Connected">>)
              => /\ current_gear' = current_gear
                 /\ calls' = <<>>
         ]_vars

\* after a disconnect a shift press was handled and did nothing
C4_Witness ==
    /\ active_gamepad = {}
    /\ event = {East}
    /\ polled >= 2
    /\ current_gear = 3
    /\ stdout = <<>>
    /\ calls = <<>>

(* C5: when no gamepad is detected at launch the absence is reported and
   the loop never starts: no event is polled, the gear stays 3, no gamepad
   call is made, and the only step left is the return. *)
C5_NoGamepadNoLoop ==
    /\ []((stdout # <<>> /\ stdout[1] = NoGamepadNotice)
            => /\ pc \in {"no_gamepad", "returned_no_gamepad"}
               /\ polled = 0
               /\ event = {}
               /\ current_gear = 3
               /\ active_gamepad = {}
               /\ calls = <<>>)
    /\ [][ /\ pc \in {"no_gamepad", "returned_no_gamepad"}
              => /\ pc' \in {"no_gamepad", "returned_no_gamepad"}
                 /\ polled' = polled
                 /\ current_gear' = current_gear
                 /\ calls' = calls
         ]_vars

\* main returned on the no-gamepad path with events left unpolled
C5_Witness ==
    /\ pc = "returned_no_gamepad"
    /\ queue # <<>>
    /\ polled = 0

\* clamp(x, lo, hi) of the specification
Clamp(x, lo, hi) == IF FLt(x, lo) THEN lo ELSE IF FLt(hi, x) THEN hi ELSE x

\* the direction of the shift the most recent step reported
ReportedDownshift == stdout # <<>> /\ stdout[1][1] = "DOWNSHIFT"
ReportedUpshift == stdout # <<>> /\ stdout[1][1] = "UPSHIFT"

(* C6: for every torque t >= 0 (with maxTorque m > 0) the intensity computed
   by a shift equals clamp(0.8*t/m, 0, 1) for an upshift and
   clamp(1.3*t/m, 0, 1) for a downshift, and lies within [0,1]. *)
C6_IntensityClamped ==
    (/\ torque.k # "nan"
     /\ ~FLt(torque, Fin(0, 1))
     /\ FLt(Fin(0, 1), max_torque))
    => \A i \in intensity :
          /\ ReportedUpshift
             => i = Clamp(FMul(Fin(8, 10), FDiv(torque, max_torque)), Fin(0, 1), Fin(1, 1))
          /\ ReportedDownshift
             => i = Clamp(FMul(Fin(13, 10), FDiv(torque, max_torque)), Fin(0, 1), Fin(1, 1))
          /\ ~FLt(i, Fin(0, 1))
          /\ ~FLt(Fin(1, 1), i)

\* an upshift with torque 100000, a hundred times maxTorque: intensity is 1
C6_Witness ==
    /\ torque = Fin(100000, 1)
    /\ ReportedUpshift
    /\ intensity = {Fin(1, 1)}

C8_FixedDuration ==
    \A k \in RumbleCalls(calls) :
        /\ ReportedDownshift \/ ReportedUpshift
        /\ ReportedDownshift => calls[k][5] = 200
        /\ ReportedUpshift => calls[k][5] = 150

\* a downshift with torque 0: the command has magnitude 0 and still lasts 200 ms
C8_Witness ==
    /\ torque = Fin(0, 1)
    /\ ReportedDownshift
    /\ \E k \in RumbleCalls(calls) : calls[k][3] = 0 /\ calls[k][5] = 200

(* C9: handling an exit-control press ends the loop whether or not a device
   is active: main returns, the events queued behind the press stay
   unhandled, and from then on no event is polled, the gear does not change
   and no gamepad call is made. *)
C9_ExitTerminates ==
    [][ /\ Handles(Start)
           => /\ pc' = "returned_exit"
              /\ queue' = Tail(queue)
              /\ current_gear' = current_gear
              /\ calls' = <<>>
        /\ (pc = "returned_exit" \/ event = {Start})
           => /\ pc' = "returned_exit"
              /\ queue' = queue
              /\ polled' = polled
              /\ current_gear' = current_gear
              /\ calls' = calls
      ]_vars

\* main returned on an exit press handled with no device active, leaving an
\* event in the queue behind it
C9_Witness ==
    /\ pc = "returned_exit"
    /\ event = {Start}
    /\ active_gamepad = {}
    /\ queue # <<>>

(* C10: a set_rumble call is always preceded, in the same step, by an
   is_ff_supported query of the same gamepad that answered true; when the
   query answers false the shift has still moved the gear by one, no
   set_rumble call is made, the notice is printed and the loop keeps
   running. *)
C10_UnsupportedSkipsRumble ==
    [][ polled' = polled + 1
          => /\ \A k \in RumbleCalls(calls') :
                   /\ k > 1
                   /\ calls'[k - 1] = <<"is_ff_supported", calls'[k][2], TRUE>>
             /\ (calls' # <<>> /\ calls'[1][1] = "is_ff_supported" /\ ~calls'[1][3])
                   => /\ RumbleCalls(calls') = {}
                      /\ current_gear' - current_gear \in {-1, 1}
                      /\ calls'[1][2] \in active_gamepad
                      /\ stdout'[2] = <<"Rumble not supported on this gamepad">>
                      /\ pc' = "poll"
      ]_vars

\* an upshift from 3 to 4 on a gamepad without force feedback
C10_Witness ==
    /\ current_gear = 4
    /\ polled = 1
    /\ event = {East}
    /\ \E p \in Pads : calls = << <<"is_ff_supported", p, FALSE>> >>
    /\ stdout = << <<"UPSHIFT", 4>>, <<"Rumble not supported on this gamepad">> >>
    /\ Running

\* the set_rumble calls among a sequence of gamepad calls that returned Err
FailedRumbleCalls(cs) == {k \in RumbleCalls(cs) : ~cs[k][6]}

(* C11: when the set_rumble call of a press fails, the press ends as it
   does when the call succeeds: the gear has moved by one in the direction
   of the press, the active device is unchanged, "Rumble triggered!" is
   printed, the loop is still polling, and set_rumble was called once only
   (no retry). *)
C11_RumbleFailureSwallowed ==
    [][ (polled' = polled + 1 /\ FailedRumbleCalls(calls') # {})
          => /\ Handles(East) => current_gear' = current_gear + 1
             /\ Handles(West) => current_gear' = current_gear - 1
             /\ Handles(East) \/ Handles(West)
             /\ active_gamepad' = active_gamepad
             /\ active_gamepad # {}
             /\ pc' = "poll"
             /\ Cardinality(RumbleCalls(calls')) = 1
             /\ stdout'[Len(stdout')] = <<"Rumble triggered!">>
      ]_vars

\* a downshift from 3 to 2 whose set_rumble call returned Err; the loop polls on
C11_Witness ==
    /\ FailedRumbleCalls(calls) # {}
    /\ event = {West}
    /\ polled = 1
    /\ current_gear = 2
    /\ active_gamepad # {}
    /\ pc = "poll"

(* C12: handling a Connected event makes the gamepad that produced the event
   the active one, whatever was active before; from then on an upshift or
   downshift press inside the gear range changes the gear; and at every
   moment at most one gamepad is tracked as active. *)
C12_ConnectedSetsActive ==
    /\ [](Cardinality(active_gamepad) <= 1)
    /\ [](event = {<<"Connected">>} => active_gamepad # {})
    /\ [][ /\ Handles(<<"Connected">>)
              => active_gamepad' = {Head(queue).id}
           /\ (Handles(East) /\ active_gamepad # {} /\ current_gear < 6)
              => current_gear' # current_gear
           /\ (Handles(West) /\ active_gamepad # {} /\ current_gear > 1)
              => current_gear' # current_gear
         ]_vars

\* a Connected event of gamepad 1 was handled as the second event of the session
C12_Witness ==
    /\ event = {<<"Connected">>}
    /\ active_gamepad = {1}
    /\ polled = 2
    /\ stdout = << <<"Gamepad connected!">> >>

(* C13 as stated: an upshift at gear 6 with torque 1200 and maxTorque 1000
   still computes the intensity (0.8 * 1.2 = 0.96), leaves the gear at 6 and
   produces the boundary notice. *)
C13_AsStated ==
    [][ (current_gear = 6 /\ torque = Fin(1200, 1)
                     /\ max_torque = Fin(1000, 1) /\ CallUpshift)
          => /\ intensity' = {Fin(96, 100)}
             /\ current_gear' = 6
             /\ stdout' = HighestNotice
      ]_vars

(* C13, amended: an upshift at gear 6 with torque 1200 and maxTorque 1000
   leaves the gear at 6 and produces the boundary notice, and the intensity
   is not computed and no gamepad call is made; the intensity 0.96 is
   computed by the upshifts with that torque below gear 6. *)
C13_BoundarySkipsIntensity ==
    [][ /\ (current_gear = 6 /\ torque = Fin(1200, 1)
                        /\ max_torque = Fin(1000, 1) /\ CallUpshift)
           => /\ intensity' = {}
              /\ calls' = <<>>
              /\ current_gear' = 6
              /\ stdout' = HighestNotice
        /\ (current_gear < 6 /\ torque = Fin(1200, 1)
                        /\ max_torque = Fin(1000, 1) /\ CallUpshift)
           => intensity' = {Fin(96, 100)}
      ]_vars

\* torque 1200, gear 6, the notice printed and no intensity computed
C13_Witness ==
    /\ torque = Fin(1200, 1)
    /\ max_torque = Fin(1000, 1)
    /\ current_gear = 6
    /\ stdout = HighestNotice
    /\ intensity = {}
    /\ calls = <<>>

\* the intensity of the specification for a direction
SpecIntensity(is_downshift) ==
    Clamp(FMul(IF is_downshift THEN Fin(13, 10) ELSE Fin(8, 10),
               FDiv(torque, max_torque)),
          Fin(0, 1), Fin(1, 1))

(* C14: a rumble command is issued only by a successful shift: a step that
   handles no event issues none; a step that handles an event issues at
   most one, and when it issues one the event is an upshift or downshift
   press, a device is active, the gear has changed, and the magnitudes are
   those of the intensity for the direction of the press.  With torque 500
   and maxTorque 1000 a downshift press at gear 3 computes intensity 0.65
   and leaves gear 2. *)
C14_RumbleOnlyOnShift ==
    [][ /\ polled' = polled => calls' = calls
        /\ polled' = polled + 1
           => /\ Cardinality(RumbleCalls(calls')) <= 1
              /\ RumbleCalls(calls') # {}
                 => /\ Handles(East) \/ Handles(West)
                    /\ active_gamepad # {}
                    /\ current_gear' # current_gear
                    /\ intensity' = {SpecIntensity(Handles(West))}
                    /\ \A k \in RumbleCalls(calls') : \A i \in intensity' :
                          /\ calls'[k][3] = AsU16(FMul(i, Fin(65535, 1)))
                          /\ calls'[k][4] =
                               AsU16(FMul(FMul(i, Fin(7, 10)), Fin(65535, 1)))
        /\ (Handles(West) /\ active_gamepad # {} /\ current_gear = 3
                          /\ torque = Fin(500, 1) /\ max_torque = Fin(1000, 1))
           => /\ intensity' = {Fin(65, 100)}
              /\ current_gear' = 2
      ]_vars

\* torque 500: the downshift press from gear 3 gave intensity 0.65, gear 2
\* and one rumble command
C14_Witness ==
    /\ torque = Fin(500, 1)
    /\ event = {West}
    /\ polled = 1
    /\ current_gear = 2
    /\ intensity = {Fin(65, 100)}
    /\ Cardinality(RumbleCalls(calls)) = 1

(* C15: only the upshift and downshift presses change the gear: handling a
   Connected event, a Disconnected event, a press of another button or an
   event of another kind leaves the gear as it is (no reset to 3 on
   reconnection), as does every step that handles no event; events other
   than Connected and Disconnected leave the active device as it is; no
   step changes torque or max_torque. *)
C15_OnlyShiftsChangeGear ==
    [][ /\ torque' = torque
        /\ max_torque' = max_torque
        /\ polled' = polled => current_gear' = current_gear
        /\ (polled' = polled + 1 /\ Head(queue).event \notin {East, West})
           => current_gear' = current_gear
        /\ (polled' = polled + 1
              /\ Head(queue).event \notin {<<"Connected">>, <<"Disconnected">>})
           => active_gamepad' = active_gamepad
      ]_vars

\* a Connected event handled after two upshifts: the gear is still 5
C15_Witness ==
    /\ event = {<<"Connected">>}
    /\ polled = 3
    /\ current_gear = 5
    /\ torque = Fin(500, 1)
    /\ max_torque = Fin(1000, 1)

(* C16: once the loop has started, the only step that ends it is the
   handling of an exit-control press: main is at its return after the loop
   only if the event handled last is that press, and every other step taken
   while the loop runs (a disconnect, a boundary notice, an unsupported or
   failed rumble) leaves it running. *)
C16_OnlyExitTerminates ==
    /\ [](pc = "returned_exit" => event = {Start})
    /\ [](polled > 0 => pc \in {"poll", "sleep", "returned_exit"})
    /\ [][ (Running /\ ~Running')
             => (Handles(Start) /\ pc' = "returned_exit")
         ]_vars

\* the loop is still running after four events, the last one a disconnect
C16_Witness ==
    /\ Running
    /\ polled = 4
    /\ event = {<<"Disconnected">>}
    /\ active_gamepad = {}

(* C17: the loop goes to sleep only from a poll that found the queue empty;
   a step that handles an event takes exactly the event at the head of the
   queue and leaves the rest in order; and with the loop scheduled fairly,
   the k-th event of the session, once queued while the loop runs, is
   eventually handled unless main has returned on an exit press. *)
C17_DrainsBeforeSleep ==
    /\ [][ /\ (pc = "poll" /\ pc' = "sleep") => queue = <<>>
           /\ polled' \in {polled, polled + 1}
           /\ polled' = polled + 1
              => /\ pc = "poll"
                 /\ queue # <<>>
                 /\ queue' = Tail(queue)
                 /\ event' = {Head(queue).event}
         ]_vars
    /\ \A k \in 1 .. MaxEvents :
          (Running /\ polled + Len(queue) >= k)
             ~> (polled >= k \/ pc = "returned_exit")

\* four events were handled and the loop, finding the queue empty, sleeps
C17_Witness ==
    /\ pc = "sleep"
    /\ queue = <<>>
    /\ polled = 4
    /\ event # {Start}

\* round(a) for a finite a >= 0: the nearest integer, halves away from zero
RoundNearest(a) == (a.n \div a.d) + (IF 2 * (a.n % a.d) >= a.d THEN 1 ELSE 0)

\* n <= a < n + 1 for a finite a: n is a with its fraction dropped
TruncatesTo(a, n) == a.k = "fin" /\ n * a.d <= a.n /\ a.n < (n + 1) * a.d

(* C18 as stated: for every rumble command issued with computed intensity
   i, the strong magnitude is round(i * 65535) and the weak magnitude is
   round(i * 0.7 * 65535), rounding to the nearest integer. *)
C18_AsStated ==
    \A k \in RumbleCalls(calls) : \A i \in intensity :
        /\ calls[k][3] = RoundNearest(FMul(i, Fin(65535, 1)))
        /\ calls[k][4] = RoundNearest(FMul(FMul(i, Fin(7, 10)), Fin(65535, 1)))

(* C18, amended: for every rumble command issued with computed intensity
   i, the strong magnitude is i * 65535 with its fraction dropped and the
   weak magnitude is i * 0.7 * 65535 with its fraction dropped (truncation
   toward zero, not rounding to nearest): strong <= i * 65535 < strong + 1
   and weak <= i * 0.7 * 65535 < weak + 1. *)
C18_MagnitudesTruncated ==
    \A k \in RumbleCalls(calls) :
        /\ intensity # {}
        /\ \A i \in intensity :
              /\ TruncatesTo(FMul(i, Fin(65535, 1)), calls[k][3])
              /\ TruncatesTo(FMul(FMul(i, Fin(7, 10)), Fin(65535, 1)), calls[k][4])

\* torque 1000, upshift: intensity 0.8, 0.8 * 0.7 * 65535 = 36699.6 and the
\* weak magnitude passed is 36699
C18_Witness ==
    /\ torque = Fin(1000, 1)
    /\ ReportedUpshift
    /\ intensity = {Fin(4, 5)}
    /\ \E k \in RumbleCalls(calls) : calls[k][3] = 52428 /\ calls[k][4] = 36699

(* C19: handling a Disconnected event leaves the session without an active
   gamepad whatever gamepad the event is of, the active one or another; and
   from then on the session stays without an active gamepad through every
   step that is not the handling of a Connected event. *)
C19_DisconnectClearsActive ==
    [][ /\ \A p \in Pads :
              (Handles(<<"Disconnected">>) /\ Head(queue).id = p)
                 => active_gamepad' = {}
        /\ (Running /\ active_gamepad = {} /\ ~Handles(<<"Connected">>))
              => active_gamepad' = {}
      ]_vars

\* gamepad 0 is active and the loop is about to take the Disconnected event
\* of gamepad 1 off the queue
C19_Witness ==
    /\ pc = "poll"
    /\ active_gamepad = {0}
    /\ queue # <<>>
    /\ Head(queue) = [id |-> 1, event |-> <<"Disconnected">>]

(* C20: a shift press is handled without looking at the gamepad the press
   is of: while some gamepad is active, a West or East press of any gamepad
   shifts the gear (when the gear is not at its end), asks the
   force-feedback question, and every gamepad call it makes, the question
   and the rumble command, names the gamepad that is active when the press
   is handled. *)
C20_PressAddressesActive ==
    [][ \A p \in Pads :
           ((Handles(West) \/ Handles(East)) /\ Head(queue).id = p
                /\ active_gamepad # {})
              => /\ (Handles(East) /\ current_gear < MaxGear)
                    => current_gear' = current_gear + 1 /\ calls' # <<>>
                 /\ (Handles(West) /\ current_gear > MinGear)
                    => current_gear' = current_gear - 1 /\ calls' # <<>>
                 /\ \A k \in 1 .. Len(calls') :
                       /\ calls'[k][1] \in {"is_ff_supported", "set_rumble"}
                       /\ calls'[k][2] \in active_gamepad
      ]_vars

\* gamepad 0 is active, the gear can go up, and the loop is about to take an
\* East press of gamepad 1 off the queue
C20_Witness ==
    /\ pc = "poll"
    /\ active_gamepad = {0}
    /\ current_gear < MaxGear
    /\ queue # <<>>
    /\ Head(queue) = [id |-> 1, event |-> East]

====
